---- MODULE Spec2Model ----
(***************************************************************************)
(* Model of datawrapper_mcp_server/server.py: the request helper           *)
(* _make_request, the file writer write_file and the tool handlers built   *)
(* on them.                                                                *)
(*                                                                         *)
(* The filesystem is a finite tree: a function from absolute paths         *)
(* (sequences of names, <<>> is "/") to nodes (directory, regular file     *)
(* with its bytes, symbolic link with an absolute target).  pathlib paths  *)
(* are records [anchor, parts] as pathlib keeps them: '.' segments are     *)
(* gone, '..' segments are kept.                                           *)
(***************************************************************************)
EXTENDS Integers, Sequences, FiniteSets, TLC

VARIABLES
    fs,         \* the filesystem: absolute path -> node
    DIRECTORY,  \* server.py:21, the configured base directory (a pathlib Path)
    loopRaises, \* interpreter: Path.resolve() raises RuntimeError on a symlink loop
    diskFault,  \* environment: what the disk refuses (see Faults)
    writes,     \* number of direct write_file calls made so far
    inv,        \* the invocation the client has sent, with the upstream's answer to it
    wf,         \* the last write_file call and its outcome
    req,        \* the last _make_request call, what went out, and its outcome
    tool        \* the last tool invocation and its result at the tool boundary

vars == <<fs, DIRECTORY, loopRaises, diskFault, writes, inv, wf, req, tool>>

---------------------------------------------------------------------------
(* Bounds *)

\* write_file calls explored in one behaviour
MaxWrites == 2

\* symbolic links followed in one lookup before the lookup gives up (ELOOP)
MaxSymlinks == 2

---------------------------------------------------------------------------
(* pathlib paths *)

NoPath == [anchor |-> "none", parts |-> <<>>]

\* "\\w" is a name whose first character is a backslash
StartsWithBackslash(name) == name \in {"\\w"}

Rel(parts) == [anchor |-> "", parts |-> parts]
Abs(parts) == [anchor |-> "/", parts |-> parts]

\* the Path values a caller passes as file_path: plain and nested names,
\* names that exist as a directory or get a regular file in their way,
\* '..' segments that stay inside and that leave the base directory,
\* symbolic links that stay inside, leave, or loop, and absolute-looking
\* paths
FilePaths ==
    { Rel(<<>>), Rel(<<"f">>), Rel(<<"d">>), Rel(<<"d", "f">>), Rel(<<"d", "d", "f">>),
      Rel(<<"f", "f">>), Rel(<<"d", "..">>), Rel(<<"d", "..", "f">>),
      Rel(<<"..">>), Rel(<<"..", "f">>), Rel(<<"..", "f", "f">>), Rel(<<"..", "d", "f">>),
      Rel(<<"d", "..", "..", "f">>),
      Rel(<<"il", "f">>), Rel(<<"lnk">>), Rel(<<"lnk", "f">>),
      Rel(<<"loop">>), Rel(<<"loop", "f">>),
      Rel(<<"\\w">>), Abs(<<>>), Abs(<<"f">>), Abs(<<"base", "f">>) }

Front(s) == SubSeq(s, 1, Len(s) - 1)

\* PurePath.name: the final component, "" when there is none
PathName(path) == IF path.parts = <<>> THEN "" ELSE path.parts[Len(path.parts)]

\* the first character of str(path) is '/' or '\'
LooksAbsolute(path) ==
    \/ path.anchor = "/"
    \/ path.parts # <<>> /\ StartsWithBackslash(path.parts[1])

\* base_dir / file_path for a relative file_path
JoinPath(base, rel) == [anchor |-> base.anchor, parts |-> base.parts \o rel.parts]

\* PurePath.parent: lexical, '..' is not interpreted
PathParent(path) == [anchor |-> path.anchor, parts |-> Front(path.parts)]

\* os.getcwd() of the server process
Cwd == <<>>

\* the segments the kernel walks from "/" for a path
FromRoot(path) == IF path.anchor = "/" THEN path.parts ELSE Cwd \o path.parts

IsPrefix(p, q) == Len(p) <= Len(q) /\ SubSeq(q, 1, Len(p)) = p

---------------------------------------------------------------------------
(* The filesystem *)

Dir == [t |-> "dir"]
File(c) == [t |-> "file", c |-> c]
Link(to) == [t |-> "link", to |-> to]

\* byte strings a caller can write; "" is the empty byte string
Bytes == {"A", "B"}

\* environment faults: "mkdir" = creating a directory is denied (EACCES),
\* "open" = opening the target is denied, "write" = the device is full
\* once the target has been opened
Faults == {"none", "mkdir", "open", "write"}

Parent(p) == IF p = <<>> THEN <<>> ELSE Front(p)

\* a local variable: Let(e, LAMBDA x : body) is body with x bound to the
\* value of e, which is computed once
Let(value, Body(_)) == Body(value)

Put(f, p, node) == [q \in DOMAIN f \cup {p} |-> IF q = p THEN node ELSE f[q]]

\* the kernel's path lookup from `cur` through `parts`; the final symbolic
\* link is followed when followLast
RECURSIVE KWalk(_, _, _, _, _)
KWalk(f, cur, parts, followLast, fuel) ==
    IF parts = <<>> THEN [e |-> "", p |-> cur]
    ELSE IF cur \notin DOMAIN f THEN [e |-> "ENOENT", p |-> cur]
    ELSE IF f[cur].t # "dir" THEN [e |-> "ENOTDIR", p |-> cur]
    ELSE LET h == Head(parts)
             rest == Tail(parts)
             n == Append(cur, h)
         IN  IF h = ".." THEN KWalk(f, Parent(cur), rest, followLast, fuel)
             ELSE IF n \in DOMAIN f /\ f[n].t = "link" /\ (rest # <<>> \/ followLast)
             THEN IF fuel = 0 THEN [e |-> "ELOOP", p |-> n]
                  ELSE KWalk(f, <<>>, f[n].to \o rest, followLast, fuel - 1)
             ELSE KWalk(f, n, rest, followLast, fuel)

\* os.stat(path).  "" or the errno
Stat(f, parts) ==
    Let(KWalk(f, <<>>, parts, TRUE, MaxSymlinks), LAMBDA r :
        IF r.e # "" THEN r
        ELSE IF r.p \notin DOMAIN f THEN [e |-> "ENOENT", p |-> r.p]
        ELSE r)

\* Path.is_dir()
IsDir(f, parts) ==
    Let(Stat(f, parts), LAMBDA r : r.e = "" /\ f[r.p].t = "dir")

\* os.mkdir(path)
OsMkdir(f, parts, fault) ==
    IF parts = <<>> THEN [e |-> "EEXIST", fs |-> f]
    ELSE Let(Stat(f, Front(parts)), LAMBDA d :
         LET last == parts[Len(parts)]
             n == Append(d.p, last)
         IN  IF d.e # "" THEN [e |-> d.e, fs |-> f]
             ELSE IF f[d.p].t # "dir" THEN [e |-> "ENOTDIR", fs |-> f]
             ELSE IF last = ".." \/ n \in DOMAIN f THEN [e |-> "EEXIST", fs |-> f]
             ELSE IF fault = "mkdir" THEN [e |-> "EACCES", fs |-> f]
             ELSE [e |-> "", fs |-> Put(f, n, Dir)])

\* Path.mkdir(parents=True, exist_ok=True)
RECURSIVE PathMkdir(_, _, _)
PathMkdir(f, parts, fault) ==
    Let(OsMkdir(f, parts, fault), LAMBDA r :
        IF r.e = "" THEN r
        ELSE IF r.e = "ENOENT"
        THEN IF parts = <<>> THEN r
             ELSE Let(PathMkdir(f, Front(parts), fault), LAMBDA pr :
                      IF pr.e # "" THEN pr
                      ELSE Let(OsMkdir(pr.fs, parts, fault), LAMBDA r2 :
                               IF r2.e = "" THEN r2
                               ELSE IF r2.e # "ENOENT" /\ IsDir(pr.fs, parts)
                               THEN [e |-> "", fs |-> pr.fs]
                               ELSE r2))
        ELSE IF IsDir(f, parts) THEN [e |-> "", fs |-> f]
        ELSE r)

\* os.path.realpath(path, strict=False): symbolic links and '..' resolved,
\* missing components kept as they are
RECURSIVE RealPath(_, _, _, _)
RealPath(f, cur, parts, fuel) ==
    IF parts = <<>> THEN [ok |-> TRUE, p |-> cur]
    ELSE LET h == Head(parts)
             rest == Tail(parts)
             n == Append(cur, h)
         IN  IF h = ".." THEN RealPath(f, Parent(cur), rest, fuel)
             ELSE IF n \in DOMAIN f /\ f[n].t = "link"
             THEN IF fuel = 0 THEN [ok |-> FALSE, p |-> n \o rest]
                  ELSE Let(RealPath(f, <<>>, f[n].to, fuel - 1), LAMBDA t :
                           IF t.ok THEN RealPath(f, t.p, rest, fuel)
                           ELSE [ok |-> FALSE, p |-> t.p \o rest])
             ELSE RealPath(f, n, rest, fuel)

\* Path.resolve(): [e |-> "" or "RuntimeError", p |-> the resolved path]
Resolve(f, path, raises) ==
    Let(RealPath(f, <<>>, FromRoot(path), MaxSymlinks), LAMBDA r :
        IF raises /\ Stat(f, r.p).e = "ELOOP"
        THEN [e |-> "RuntimeError", p |-> r.p]
        ELSE [e |-> "", p |-> r.p])

\* target_path.open("wb") and f.write(content)
OpenWrite(f, parts, content, fault) ==
    Let(KWalk(f, <<>>, parts, TRUE, MaxSymlinks), LAMBDA r :
        IF r.e # "" THEN [e |-> r.e, fs |-> f]
        ELSE IF r.p \in DOMAIN f /\ f[r.p].t = "dir" THEN [e |-> "EISDIR", fs |-> f]
        ELSE IF fault = "open" THEN [e |-> "EACCES", fs |-> f]
        ELSE IF fault = "write" THEN [e |-> "ENOSPC", fs |-> Put(f, r.p, File(""))]
        ELSE [e |-> "", fs |-> Put(f, r.p, File(content))])

\* reading a path back: the bytes, or "<error>" when it cannot be read
NoBytes == "<error>"
ReadBytes(f, path) ==
    IF path.anchor \notin {"", "/"} THEN NoBytes
    ELSE Let(Stat(f, FromRoot(path)), LAMBDA r :
             IF r.e = "" /\ f[r.p].t = "file" THEN f[r.p].c ELSE NoBytes)

---------------------------------------------------------------------------
(* write_file, server.py:86-121 *)

\* the outcome: status is "ok" or the class of the exception raised
\* (IOError is OSError in Python 3, so both are "OSError")
Outcome(status, ret, f) == [status |-> status, ret |-> ret, fs |-> f]

\* write_file without line 110: the parent of the target is not created
write_file_no_parents(f, base_dir, file_path, content, fault, raises) ==
    IF PathName(file_path) = "" THEN Outcome("ValueError", NoPath, f)
    ELSE IF LooksAbsolute(file_path) THEN Outcome("ValueError", NoPath, f)
    ELSE
    Let(JoinPath(base_dir, file_path), LAMBDA target_path :
    Let(PathMkdir(f, FromRoot(base_dir), fault), LAMBDA m1 :
        IF m1.e # "" THEN Outcome("OSError", NoPath, m1.fs)
        ELSE
    Let(Resolve(m1.fs, target_path, raises), LAMBDA rt :
        IF rt.e # "" THEN Outcome(rt.e, NoPath, m1.fs)
        ELSE
    Let(Resolve(m1.fs, base_dir, raises), LAMBDA rb :
        IF rb.e # "" THEN Outcome(rb.e, NoPath, m1.fs)
        ELSE IF ~IsPrefix(rb.p, rt.p) THEN Outcome("ValueError", NoPath, m1.fs)
        ELSE
    Let(OpenWrite(m1.fs, FromRoot(target_path), content, fault), LAMBDA w :
        IF w.e # "" THEN Outcome("OSError", NoPath, w.fs)
        ELSE Outcome("ok", target_path, w.fs))))))

write_file(f, base_dir, file_path, content, fault, raises) ==
    IF PathName(file_path) = "" THEN Outcome("ValueError", NoPath, f)
    ELSE IF LooksAbsolute(file_path) THEN Outcome("ValueError", NoPath, f)
    ELSE
    Let(JoinPath(base_dir, file_path), LAMBDA target_path :
    Let(PathMkdir(f, FromRoot(base_dir), fault), LAMBDA m1 :
        IF m1.e # "" THEN Outcome("OSError", NoPath, m1.fs)
        ELSE
    Let(PathMkdir(m1.fs, FromRoot(PathParent(target_path)), fault), LAMBDA m2 :
        IF m2.e # "" THEN Outcome("OSError", NoPath, m2.fs)
        ELSE
    Let(Resolve(m2.fs, target_path, raises), LAMBDA rt :
        IF rt.e # "" THEN Outcome(rt.e, NoPath, m2.fs)
        ELSE
    Let(Resolve(m2.fs, base_dir, raises), LAMBDA rb :
        IF rb.e # "" THEN Outcome(rb.e, NoPath, m2.fs)
        ELSE IF ~IsPrefix(rb.p, rt.p) THEN Outcome("ValueError", NoPath, m2.fs)
        ELSE
    Let(OpenWrite(m2.fs, FromRoot(target_path), content, fault), LAMBDA w :
        IF w.e # "" THEN Outcome("OSError", NoPath, w.fs)
        ELSE Outcome("ok", target_path, w.fs)))))))

-------------------------------------------------------------------------------------------------------------------------------------------------
(* Python values *)

\* Optional[...] arguments: None, or the value
None == <<>>
Some(x) == <<x>>

PyNone == [t |-> "None"]
PyBool(b) == [t |-> "bool", b |-> b]
PyInt(i) == [t |-> "int", i |-> i]
PyStr(s) == [t |-> "str", s |-> s]
PyDict(d) == [t |-> "dict", d |-> d]

\* a dict is a function from its keys; {} is the empty function
EmptyDict == <<>>

\* {k: v for k, v in d.items() if v is not None}
DropNone(d) == [k \in {j \in DOMAIN d : d[j] # PyNone} |-> d[k]]

\* d.update(e)
Update(d, e) == [k \in DOMAIN d \cup DOMAIN e |-> IF k \in DOMAIN e THEN e[k] ELSE d[k]]

\* str(v) as an f-string shows it
PyRepr(v) ==
    CASE v.t = "None" -> "None"
      [] v.t = "bool" -> IF v.b THEN "True" ELSE "False"
      [] v.t = "int" -> ToString(v.i)
      [] v.t = "str" -> v.s

---------------------------------------------------------------------------
(* The upstream API and the HTTP client (httpx) *)

API_BASE_URL == "https://api.datawrapper.de/v3"

\* the value of DATAWRAPPER_MCP_API_KEY
API_KEY == "secret-key"

\* what the upstream answers: a response, or the transport fails
Response(status, ctype, body) ==
    [kind |-> "response", status_code |-> status, content_type |-> ctype, content |-> body]
TransportFailure(exc) == [kind |-> exc]

NoResponse == [kind |-> "none"]

JsonBody == "{\"id\": \"AbC12\"}"

Upstream ==
    { Response(200, "image/png", "fake-png"),
      Response(200, "application/json", JsonBody),
      Response(200, "application/json", "{}"),
      Response(201, "application/json", JsonBody),
      Response(204, "", ""),
      Response(301, "text/html", ""),
      Response(404, "application/json", "{}"),
      Response(500, "text/html", "oops"),
      TransportFailure("ReadTimeout"),
      TransportFailure("ConnectError") }

\* httpx's primitive_value_to_str: how a query value is put on the wire
primitive_value_to_str(v) ==
    CASE v.t = "None" -> ""
      [] v.t = "bool" -> IF v.b THEN "true" ELSE "false"
      [] v.t = "int" -> ToString(v.i)
      [] v.t = "str" -> v.s

\* the query string httpx sends for params=...: key -> value on the wire
EncodeParams(params) ==
    IF params = None THEN EmptyDict
    ELSE [k \in DOMAIN params[1] |-> primitive_value_to_str(params[1][k])]

\* httpx's encode_request: which of data / json / files becomes the body
EncodeBody(data, json_data, files) ==
    IF data # None /\ data[1].t = "str" THEN [kind |-> "raw", data |-> data, files |-> None]
    ELSE IF files # None /\ files[1] # EmptyDict
    THEN [kind |-> "multipart", data |-> data, files |-> files]
    ELSE IF data # None /\ data[1].d # EmptyDict
    THEN [kind |-> "form", data |-> data, files |-> None]
    ELSE IF json_data # None THEN [kind |-> "json", data |-> json_data, files |-> None]
    ELSE [kind |-> "none", data |-> None, files |-> None]

\* Response.is_success
is_success(response) == response.status_code >= 200 /\ response.status_code <= 299

\* the content types of Upstream in which "image" or
\* "application/octet-stream" occurs
IsBinaryType(content_type) == content_type \in {"image/png", "application/octet-stream"}

\* response.json(): the parsed body, or no value when the body is not JSON
JsonParse(body) ==
    CASE body = "{}" -> Some(EmptyDict)
      [] body = JsonBody -> Some("id" :> PyStr("AbC12"))
      [] OTHER -> None

\* json.dumps(value, indent=2)
JsonDumps(value) ==
    IF value = EmptyDict THEN "{}"
    ELSE "{\n  \"id\": \"" \o value["id"].s \o "\"\n}"

---------------------------------------------------------------------------
(* _make_request, server.py:39-83 *)

Bearer == "Bearer " \o API_KEY

\* headers["Authorization"] = f"Bearer {API_KEY}"
SetAuthorization(headers) == Put(headers, "Authorization", Bearer)

\* raise_for_status that lets informational and redirect statuses through
raise_for_status_errors_only(response) ==
    IF response.status_code < 400 THEN "" ELSE "HTTPStatusError"

\* response.raise_for_status(): the exception raised, "" when none is
raise_for_status(response) == IF is_success(response) THEN "" ELSE "HTTPStatusError"

\* the outcome: the requests that went out, the log lines, the exception
\* raised ("" when the response is returned) and the response
_make_request(method, endpoint, headers, params, data, json_data, files, upstream) ==
    LET hdrs == SetAuthorization(IF headers = None THEN EmptyDict ELSE headers[1])
        request == [method |-> method,
                    url |-> API_BASE_URL \o "/" \o endpoint,
                    headers |-> hdrs,
                    query |-> EncodeParams(params),
                    body |-> EncodeBody(data, json_data, files)]
        log_message == IF upstream.kind = "response" /\ upstream.content_type # ""
                          /\ IsBinaryType(upstream.content_type)
                       THEN "response: <binary data>"
                       ELSE "response: text"
        args == [headers |-> headers, params |-> params, data |-> data,
                 json_data |-> json_data, files |-> files]
    IN  IF upstream.kind # "response"
        THEN [called |-> TRUE, args |-> args, sent |-> <<request>>,
              log |-> <<"request_params">>,
              raised |-> upstream.kind, response |-> NoResponse]
        ELSE [called |-> TRUE, args |-> args, sent |-> <<request>>,
              log |-> <<"request_params", log_message>>,
              raised |-> raise_for_status(upstream), response |-> upstream]

\* the regular files a call created or changed, and the directories it made
FilesChanged(f, g) == {p \in DOMAIN g : g[p].t = "file" /\ (p \notin DOMAIN f \/ f[p] # g[p])}
DirsMade(f, g) == {p \in DOMAIN g \ DOMAIN f : g[p].t = "dir"}

\* what is observed of one write_file call: its arguments, its outcome and
\* what it did to the filesystem f it started from
WriteRecord(f, file_path, content, w) ==
    [called |-> TRUE, file_path |-> file_path, content |-> content,
     status |-> w.status, ret |-> w.ret,
     filesChanged |-> FilesChanged(f, w.fs), dirsMade |-> DirsMade(f, w.fs),
     replaced |-> \E p \in FilesChanged(f, w.fs) : p \in DOMAIN f]

---------------------------------------------------------------------------
(* The tool handlers, server.py:124-651 *)

NoCall == [called |-> FALSE]

RECURSIVE JoinParts(_)
JoinParts(parts) ==
    IF parts = <<>> THEN ""
    ELSE IF Len(parts) = 1 THEN parts[1]
    ELSE parts[1] \o "/" \o JoinParts(Tail(parts))

\* str(path)
PathStr(path) ==
    IF path.anchor = "/" THEN "/" \o JoinParts(path.parts)
    ELSE IF path.parts = <<>> THEN "."
    ELSE JoinParts(path.parts)

\* what a handler hands back: the exception it raised ("" when it
\* returned), the text or image it returned, its _make_request call, its
\* write_file call, the filesystem it leaves and the order of its steps
Handled(exc, text, image, call, write, f, events) ==
    [exc |-> exc, text |-> text, image |-> image, call |-> call, write |-> write,
     fs |-> f, events |-> events]

\* a handler that catches what _make_request raised and returns it as text
Propagate_as_text(r, f) ==
    Handled("", "Error: " \o r.raised, "", r, NoCall, f, <<"request">>)

\* a handler that raised what _make_request raised
Propagate(r, f) == Handled(r.raised, "", "", r, NoCall, f, <<"request">>)

\* a handler that returned text after a successful request
Text(text, r, f) == Handled("", text, "", r, NoCall, f, <<"request", "response">>)

\* a handler whose response.json() raised
JsonError(r, f) == Handled("JSONDecodeError", "", "", r, NoCall, f, <<"request", "response">>)

StatusStr(r) == ToString(r.response.status_code)

preview_chart(a, upstream, f) ==
    LET endpoint == "charts/" \o a.chart_id \o "/export/png"
        r == _make_request("GET", endpoint, None, Some(EmptyDict), None, None, None, upstream)
    IN  IF r.raised # "" THEN Propagate(r, f)
        ELSE Handled("", "", r.response.content, r, NoCall, f, <<"request", "response">>)

\* export_chart that opens the output file before it sends the request
export_chart_open_first(a, upstream, f, base, fault, raises) ==
    LET endpoint == "charts/" \o a.chart_id \o "/export/" \o a.format
        r == _make_request("GET", endpoint, None, Some(EmptyDict), None, None, None, upstream)
        w0 == write_file(f, base, a.filepath, "", fault, raises)
        w == write_file(w0.fs, base, a.filepath, r.response.content, fault, raises)
        write == WriteRecord(f, a.filepath, r.response.content, w)
    IN  IF w0.status # "ok"
        THEN Handled(w0.status, "", "", NoCall, WriteRecord(f, a.filepath, "", w0), w0.fs,
                     <<"write_file">>)
        ELSE IF r.raised # "" THEN Propagate(r, w0.fs)
        ELSE IF w.status # "ok"
        THEN Handled(w.status, "", "", r, write, w.fs, <<"write_file", "request", "response">>)
        ELSE Handled("", "Chart exported to " \o PathStr(w.ret), "", r, write, w.fs,
                     <<"write_file", "request", "response">>)

export_chart(a, upstream, f, base, fault, raises) ==
    LET endpoint == "charts/" \o a.chart_id \o "/export/" \o a.format
        all == [k \in {"width", "height", "unit", "mode", "scale", "zoom", "borderWidth",
                       "borderColor", "plain", "fullVector", "ligatures", "transparent",
                       "logo", "logoId", "dark"} |->
                    IF k = "transparent"
                    THEN IF a.format = "png" THEN a.transparent ELSE PyNone
                    ELSE a[k]]
        params == DropNone(all)
        r == _make_request("GET", endpoint, None, Some(params), None, None, None, upstream)
        w == write_file(f, base, a.filepath, r.response.content, fault, raises)
        write == WriteRecord(f, a.filepath, r.response.content, w)
    IN  IF r.raised # "" THEN Propagate(r, f)
        ELSE IF w.status # "ok"
        THEN Handled(w.status, "", "", r, write, w.fs, <<"request", "response", "write_file">>)
        ELSE Handled("", "Chart exported to " \o PathStr(w.ret), "", r, write, w.fs,
                     <<"request", "response", "write_file">>)

search_charts(a, upstream, f) ==
    LET params == DropNone(a)
        r == _make_request("GET", "charts", None, Some(params), None, None, None, upstream)
        charts == JsonParse(r.response.content)
    IN  IF r.raised # "" THEN Propagate(r, f)
        ELSE IF r.response.status_code = 200
        THEN IF charts = None THEN JsonError(r, f) ELSE Text(JsonDumps(charts[1]), r, f)
        ELSE Text("Error: " \o StatusStr(r) \o " - " \o r.response.content, r, f)

create_chart(a, upstream, f) ==
    LET fields == DropNone([k \in DOMAIN a \ {"metadata"} |-> a[k]])
        data == IF a.metadata # None /\ a.metadata[1] # EmptyDict
                THEN Update(fields, a.metadata[1]) ELSE fields
        r == _make_request("POST", "charts", None, None, Some(PyDict(data)), None, None, upstream)
        chart == JsonParse(r.response.content)
        chart_id == IF "id" \in DOMAIN chart[1] THEN chart[1]["id"] ELSE PyNone
    IN  IF r.raised # "" THEN Propagate(r, f)
        ELSE IF r.response.status_code \in {200, 201}
        THEN IF chart = None THEN JsonError(r, f)
             ELSE Text("Chart created successfully with ID: " \o PyRepr(chart_id) \o "\n"
                       \o JsonDumps(chart[1]), r, f)
        ELSE Text("Error creating chart: " \o StatusStr(r) \o " - " \o r.response.content, r, f)

upload_chart_data(a, upstream, f) ==
    LET endpoint == "charts/" \o a.chart_id \o "/data"
        headers == ("Content-Type" :> a.content_type)
        r == _make_request("PUT", endpoint, Some(headers), None, Some(PyStr(a.data)), None, None,
                           upstream)
    IN  IF r.raised # "" THEN Propagate(r, f)
        ELSE IF r.response.status_code \in {200, 204}
        THEN Text("Data successfully uploaded to chart " \o a.chart_id, r, f)
        ELSE Text("Error uploading data: " \o StatusStr(r) \o " - " \o r.response.content, r, f)

get_chart_data(a, upstream, f) ==
    LET endpoint == "charts/" \o a.chart_id \o "/data"
        r == _make_request("GET", endpoint, None, None, None, None, None, upstream)
    IN  IF r.raised # "" THEN Propagate(r, f)
        ELSE IF r.response.status_code = 200 THEN Text(r.response.content, r, f)
        ELSE Text("Error fetching chart data: " \o StatusStr(r) \o " - " \o r.response.content,
                  r, f)

get_chart_metadata(a, upstream, f) ==
    LET endpoint == "charts/" \o a.chart_id
        r == _make_request("GET", endpoint, None, None, None, None, None, upstream)
        charts == JsonParse(r.response.content)
    IN  IF r.raised # "" THEN Propagate(r, f)
        ELSE IF r.response.status_code = 200
        THEN IF charts = None THEN JsonError(r, f) ELSE Text(JsonDumps(charts[1]), r, f)
        ELSE Text("Error fetching chart metadata: " \o StatusStr(r) \o " - "
                  \o r.response.content, r, f)

update_chart_metadata(a, upstream, f) ==
    LET endpoint == "charts/" \o a.chart_id
        fields == DropNone([k \in DOMAIN a \ {"metadata", "chart_id"} |-> a[k]])
        data == IF a.metadata # None THEN Update(fields, a.metadata[1]) ELSE fields
        r == _make_request("PATCH", endpoint, None, None, None, Some(data), None, upstream)
        parsed == JsonParse(r.response.content)
    IN  IF data = EmptyDict
        THEN Handled("", "No update parameters provided. Chart remains unchanged.", "",
                     NoCall, NoCall, f, <<>>)
        ELSE IF r.raised # "" THEN Propagate(r, f)
        ELSE IF r.response.status_code \in {200, 204}
        THEN IF r.response.content = ""
             THEN Text("Chart " \o a.chart_id \o " updated successfully\nNo content returned",
                       r, f)
             ELSE IF parsed = None THEN JsonError(r, f)
             ELSE Text("Chart " \o a.chart_id \o " updated successfully\n"
                       \o JsonDumps(parsed[1]), r, f)
        ELSE Text("Error updating chart metadata: " \o StatusStr(r) \o " - "
                  \o r.response.content, r, f)

list_themes(a, upstream, f) ==
    LET params == [k \in {"limit", "offset", "deleted"} |-> a[k]]
        r == _make_request("GET", "themes", None, Some(params), None, None, None, upstream)
        themes == JsonParse(r.response.content)
    IN  IF r.raised # "" THEN Propagate(r, f)
        ELSE IF r.response.status_code = 200
        THEN IF themes = None THEN JsonError(r, f) ELSE Text(JsonDumps(themes[1]), r, f)
        ELSE Text("Error fetching themes: " \o StatusStr(r) \o " - " \o r.response.content, r, f)

-----
(* Initial states *)

\* an empty disk: the base directory does not exist yet
EmptyDisk == (<<>> :> Dir)

\* a populated disk: the base directory with a subdirectory, a link that
\* stays inside it, a link that leaves it, a link that loops, and outside the base
\* directory a directory and a regular file
PopulatedDisk ==
    (<<>> :> Dir) @@ (<<"base">> :> Dir) @@ (<<"base", "d">> :> Dir)
    @@ (<<"base", "il">> :> Link(<<"base", "d">>))
    @@ (<<"base", "lnk">> :> Link(<<"out">>))
    @@ (<<"base", "loop">> :> Link(<<"base", "loop">>))
    @@ (<<"out">> :> Dir) @@ (<<"f">> :> File("S"))

\* the environments a server process can start in
BaseDirs == {Abs(<<"base">>), Rel(<<"base">>)}

NoInv == [tool |-> "none"]

Quiet ==
    /\ writes = 0
    /\ wf = NoCall
    /\ req = NoCall
    /\ tool = NoCall

\* the file writer on its own: any disk, any base directory, no invocation
InitFile ==
    /\ fs \in {EmptyDisk, PopulatedDisk}
    /\ DIRECTORY \in BaseDirs
    /\ loopRaises \in BOOLEAN
    /\ diskFault \in Faults
    /\ inv = NoInv
    /\ Quiet

---------------------------------------------------------------------------
(* The invocations a client can send *)

ChartIds == {"AbC12"}

OptInt == {PyNone, PyInt(600)}
OptStr == {PyNone, PyStr("x1")}
OptBool == {PyNone, PyBool(TRUE)}
Bools == {PyBool(FALSE), PyBool(TRUE)}

\* the output paths asked of export_chart: a plain name, a name in a
\* subdirectory, a name outside the base directory, an existing directory
ExportPaths == {Rel(<<"f">>), Rel(<<"d", "f">>), Rel(<<"..", "f">>), Rel(<<"d">>)}

\* export_chart: every combination of its optional arguments and of the
\* format, the other arguments at their defaults (server.py:143-191)
ExportArgs ==
    [chart_id : ChartIds, filepath : ExportPaths, format : {"png", "pdf"},
     width : OptInt, height : OptInt, unit : {PyStr("px")}, mode : {PyStr("rgb")},
     scale : {PyInt(1)}, zoom : {PyInt(2)}, borderWidth : OptInt, borderColor : OptStr,
     plain : {PyBool(FALSE)}, fullVector : {PyBool(FALSE)}, ligatures : {PyBool(TRUE)},
     transparent : Bools, logo : {PyStr("auto")}, logoId : OptStr, dark : {PyBool(FALSE)}]

\* search_charts (server.py:222-264)
SearchArgs ==
    [userId : OptInt, authorId : OptInt, published : OptBool, search : OptStr,
     folderId : OptInt, teamId : OptStr, order : {PyStr("DESC")},
     orderBy : {PyStr("createdAt")}, limit : {PyInt(100)}, offset : {PyInt(0)},
     minLastEditStep : {PyNone, PyInt(3)}, expand : {PyBool(FALSE)}]

Metadata == {None, Some(EmptyDict), Some("title" :> PyStr("from metadata"))}

\* create_chart (server.py:295-358)
CreateArgs ==
    [title : {PyStr("t")}, theme : {PyStr("datawrapper")}, type : {PyStr("d3-lines")},
     forkable : {PyBool(FALSE)}, organizationId : OptStr, folderId : OptInt,
     externalData : {PyNone}, language : OptStr, metadata : Metadata]

\* upload_chart_data (server.py:391-404)
UploadArgs == [chart_id : ChartIds, data : {"a;b"}, content_type : {"text/csv", "application/json"}]

\* get_chart_data, get_chart_metadata, preview_chart
ChartArgs == [chart_id : ChartIds]

\* update_chart_metadata (server.py:492-573)
UpdateArgs ==
    [chart_id : ChartIds, title : OptStr, theme : {PyNone}, type : {PyNone},
     externalData : {PyNone}, language : {PyNone}, lastEditStep : {PyNone},
     publicVersion : {PyNone}, publicUrl : {PyNone}, publishedAt : {PyNone},
     folderId : OptInt, organizationId : {PyNone}, forkable : OptBool, metadata : Metadata]

\* list_themes (server.py:621-639)
ThemeArgs == [limit : {PyInt(100), PyInt(0)}, offset : {PyInt(0)}, deleted : Bools]

\* a direct call of _make_request: caller-supplied headers with and
\* without an Authorization entry, params with and without None values,
\* and every combination of the three body arguments
HeaderArgs ==
    { None, Some(EmptyDict), Some("Content-Type" :> "text/csv"),
      Some("Authorization" :> "Bearer other"), Some("authorization" :> "Bearer other"),
      Some(("Content-Type" :> "text/csv") @@ ("Authorization" :> "Bearer other")) }

ParamArgs ==
    { None, Some(EmptyDict), Some("width" :> PyInt(600)), Some("width" :> PyNone),
      Some(("width" :> PyInt(600)) @@ ("logoId" :> PyNone)),
      Some(("plain" :> PyBool(FALSE)) @@ ("logo" :> PyStr("auto"))) }

DataArgs == {None, Some(PyStr("a;b")), Some(PyDict("title" :> PyStr("t"))), Some(PyDict(EmptyDict))}
JsonArgs == {None, Some("title" :> PyStr("t"))}
FileArgs == {None, Some("file" :> "bytes")}

RequestArgs ==
    [method : {"GET", "POST", "PUT", "PATCH"}, endpoint : {"charts"}, headers : HeaderArgs,
     params : ParamArgs, data : DataArgs, json_data : JsonArgs, files : FileArgs]

Invoke(name, argSet) == {[tool |-> name, args |-> a, upstream |-> u] : a \in argSet, u \in Upstream}

Invocations ==
    Invoke("preview_chart", ChartArgs) \cup Invoke("export_chart", ExportArgs)
    \cup Invoke("search_charts", SearchArgs) \cup Invoke("create_chart", CreateArgs)
    \cup Invoke("upload_chart_data", UploadArgs) \cup Invoke("get_chart_data", ChartArgs)
    \cup Invoke("get_chart_metadata", ChartArgs)
    \cup Invoke("update_chart_metadata", UpdateArgs) \cup Invoke("list_themes", ThemeArgs)
    \cup Invoke("_make_request", RequestArgs)

\* the server with one invocation in flight; export_chart meets every
\* disk and every disk fault, the other handlers never touch the disk
Init ==
    /\ inv \in Invocations
    /\ fs \in IF inv.tool = "export_chart" THEN {EmptyDisk, PopulatedDisk} ELSE {PopulatedDisk}
    /\ diskFault \in IF inv.tool = "export_chart" THEN Faults ELSE {"none"}
    /\ DIRECTORY = Abs(<<"base">>)
    /\ loopRaises = TRUE
    /\ Quiet

---------------------------------------------------------------------------
(* A direct call of write_file *)

WriteFileCall ==
    /\ writes < MaxWrites
    /\ \E file_path \in FilePaths, content \in Bytes :
        LET r == write_file(fs, DIRECTORY, file_path, content, diskFault, loopRaises)
        IN  /\ fs' = r.fs
            /\ writes' = writes + 1
            /\ wf' = WriteRecord(fs, file_path, content, r)
            /\ UNCHANGED <<DIRECTORY, loopRaises, diskFault, inv, req, tool>>

NextFile == WriteFileCall

SpecFile == InitFile /\ [][NextFile]_vars

---------------------------------------------------------------------------
(* The server handles the invocation *)

\* the tool boundary: a handler that raised ends as an error result
Deliver(h) ==
    /\ tool' = [called |-> TRUE, name |-> inv.tool, isError |-> h.exc # "", exc |-> h.exc,
                text |-> h.text, image |-> h.image, events |-> h.events,
                touched |-> h.fs # fs]
    /\ req' = h.call
    /\ wf' = h.write
    /\ fs' = h.fs
    /\ UNCHANGED <<DIRECTORY, loopRaises, diskFault, writes, inv>>

Pending(name) == tool = NoCall /\ inv.tool = name

PreviewChart == Pending("preview_chart") /\ Deliver(preview_chart(inv.args, inv.upstream, fs))

ExportChart ==
    /\ Pending("export_chart")
    /\ Deliver(export_chart(inv.args, inv.upstream, fs, DIRECTORY, diskFault, loopRaises))

SearchCharts == Pending("search_charts") /\ Deliver(search_charts(inv.args, inv.upstream, fs))

CreateChart == Pending("create_chart") /\ Deliver(create_chart(inv.args, inv.upstream, fs))

UploadChartData ==
    Pending("upload_chart_data") /\ Deliver(upload_chart_data(inv.args, inv.upstream, fs))

GetChartData == Pending("get_chart_data") /\ Deliver(get_chart_data(inv.args, inv.upstream, fs))

GetChartMetadata ==
    Pending("get_chart_metadata") /\ Deliver(get_chart_metadata(inv.args, inv.upstream, fs))

UpdateChartMetadata ==
    Pending("update_chart_metadata") /\ Deliver(update_chart_metadata(inv.args, inv.upstream, fs))

ListThemes == Pending("list_themes") /\ Deliver(list_themes(inv.args, inv.upstream, fs))

\* a caller inside the server calls _make_request with arguments of its own
MakeRequest ==
    /\ inv.tool = "_make_request"
    /\ req = NoCall
    /\ req' = _make_request(inv.args.method, inv.args.endpoint, inv.args.headers,
                            inv.args.params, inv.args.data, inv.args.json_data,
                            inv.args.files, inv.upstream)
    /\ UNCHANGED <<fs, DIRECTORY, loopRaises, diskFault, writes, inv, wf, tool>>

Next ==
    \/ PreviewChart
    \/ ExportChart
    \/ SearchCharts
    \/ CreateChart
    \/ UploadChartData
    \/ GetChartData
    \/ GetChartMetadata
    \/ UpdateChartMetadata
    \/ ListThemes
    \/ MakeRequest

Spec == Init /\ [][Next]_vars

---------------------------------------------------------------------------
(* Claims about write_file, checked under SpecFile *)

\* base_dir / file_path of the last write_file call
TargetOf(file_path) == JoinPath(DIRECTORY, file_path)

ResolvedBase == RealPath(fs, <<>>, FromRoot(DIRECTORY), MaxSymlinks)
ResolvedTarget(file_path) == RealPath(fs, <<>>, FromRoot(TargetOf(file_path)), MaxSymlinks)

\* the joined path, with '..' segments and symbolic links resolved, lies
\* outside the resolved base directory
Escapes(file_path) ==
    /\ ~LooksAbsolute(file_path)
    /\ ResolvedBase.ok /\ ResolvedTarget(file_path).ok
    /\ ~IsPrefix(ResolvedBase.p, ResolvedTarget(file_path).p)

IsTraversal(file_path) == LooksAbsolute(file_path) \/ Escapes(file_path)

\* a valid relative path: a file name, not absolute-looking, resolving
\* inside the base directory
Valid(file_path) ==
    /\ PathName(file_path) # ""
    /\ ~LooksAbsolute(file_path)
    /\ ResolvedBase.ok /\ ResolvedTarget(file_path).ok
    /\ IsPrefix(ResolvedBase.p, ResolvedTarget(file_path).p)

\* the filesystem itself stands in the way of the target: a regular file or
\* a looping link where a directory is needed, or a directory where the
\* file is to go
Obstructed(file_path) ==
    LET r == KWalk(fs, <<>>, FromRoot(TargetOf(file_path)), TRUE, MaxSymlinks)
    IN  \/ r.e \in {"ENOTDIR", "ELOOP"}
        \/ r.e = "" /\ r.p \in DOMAIN fs /\ fs[r.p].t = "dir"

\* a path that resolves strictly below the base directory
Descendant(path) ==
    LET t == RealPath(fs, <<>>, FromRoot(path), MaxSymlinks)
    IN  t.ok /\ IsPrefix(ResolvedBase.p, t.p) /\ t.p # ResolvedBase.p

\* C1 (as claimed): a write_file call with a traversal attempt (an
\* absolute-looking path, or one that resolves outside the base directory)
\* fails with ValueError and creates or modifies no file.
C1_TraversalRejected ==
    (wf.called /\ IsTraversal(wf.file_path))
        => (wf.status = "ValueError" /\ wf.filesChanged = {})

\* C2: for a valid relative path write_file is never refused as invalid and
\* fails only when the disk refuses or the filesystem stands in the way;
\* when it returns, the parent directories exist, the returned path is a
\* descendant of the base directory and reading it back yields exactly the
\* bytes given, on a first write and on a write that replaces earlier
\* content.
C2_WriteReadRoundTrip ==
    (wf.called /\ Valid(wf.file_path)) =>
        /\ wf.status \in {"ok", "OSError"}
        /\ wf.status = "OSError" => (diskFault # "none" \/ Obstructed(wf.file_path))
        /\ wf.status = "ok" =>
            /\ IsDir(fs, FromRoot(PathParent(TargetOf(wf.file_path))))
            /\ Descendant(wf.ret)
            /\ ReadBytes(fs, wf.ret) = wf.content

\* C2 witness: a second write to a nested path, whose subdirectories did
\* not exist on the initial disk, has replaced the earlier content
C2_Witness ==
    /\ wf.called /\ wf.status = "ok" /\ wf.replaced
    /\ wf.file_path = Rel(<<"d", "d", "f">>)
    /\ ReadBytes(fs, wf.ret) = wf.content

\* C9 (as claimed): a failing write_file call raises ValueError or IOError
\* (OSError) and nothing else, and ValueError only for a path that fails
\* validation.
C9_TwoFailureKinds ==
    (wf.called /\ wf.status # "ok") =>
        /\ wf.status \in {"ValueError", "OSError"}
        /\ wf.status = "ValueError" =>
            (PathName(wf.file_path) = "" \/ IsTraversal(wf.file_path))

\* C11 (as claimed): on success write_file returns the canonical absolute
\* path of the file it wrote, with symbolic links and '.'/'..' segments
\* resolved, for every base directory and every valid relative path.
C11_ReturnsCanonicalPath ==
    (wf.called /\ wf.status = "ok")
        => wf.ret = Abs(ResolvedTarget(wf.file_path).p)

\* C12 (as claimed): a write_file call that fails with ValueError, for any
\* of its reasons, leaves the filesystem unchanged: it has made no directory
\* and created or modified no file.
C12_InvalidPathLeavesDisk ==
    (wf.called /\ wf.status = "ValueError")
        => (wf.dirsMade = {} /\ wf.filesChanged = {})

---------------------------------------------------------------------------
(* Claims about _make_request and the tool handlers, checked under Spec *)

\* the upstream answered with a status outside 200..299
NonSuccess(u) == u.kind = "response" /\ (u.status_code < 200 \/ u.status_code > 299)

\* the upstream call failed: no response at all, or a non-success status
UpstreamFailed(u) == u.kind # "response" \/ NonSuccess(u)

\* HTTP header names are case-insensitive: the name as a server reads it
Lower(name) ==
    CASE name = "Authorization" -> "authorization"
      [] name = "Content-Type" -> "content-type"
      [] OTHER -> name

\* the request a call put on the wire
Sent == req.sent[1]

\* C3: every _make_request call issues exactly one outbound request; when
\* the upstream answers with a non-2xx status the call raises an error
\* carrying that status instead of returning, and when the transport fails
\* it raises the transport's error.
C3_OneRequestNoRetry ==
    req.called =>
        /\ Len(req.sent) = 1
        /\ NonSuccess(inv.upstream) =>
            /\ req.raised = "HTTPStatusError"
            /\ req.response.status_code = inv.upstream.status_code
        /\ inv.upstream.kind # "response" => req.raised = inv.upstream.kind

\* C3 witness: a direct call answered with 404 has raised
C3_Witness ==
    /\ req.called /\ inv.tool = "_make_request"
    /\ inv.upstream.kind = "response" /\ inv.upstream.status_code = 404
    /\ req.raised = "HTTPStatusError"

\* C4 (as claimed): a query parameter passed with the value None never
\* appears in the query that is sent, whatever params mapping
\* _make_request is given.
C4_NoneParamsOmitted ==
    (req.called /\ req.args.params # None) =>
        \A k \in DOMAIN req.args.params[1] :
            req.args.params[1][k] = PyNone => k \notin DOMAIN Sent.query

\* C5 (as claimed): the request sent carries an Authorization header, every
\* Authorization header it carries is the configured bearer credential, and
\* the caller's other headers are sent unchanged.
C5_AuthorizationOverwritten ==
    req.called =>
        LET given == IF req.args.headers = None THEN EmptyDict ELSE req.args.headers[1]
        IN  /\ \E k \in DOMAIN Sent.headers : Lower(k) = "authorization"
            /\ \A k \in DOMAIN Sent.headers :
                Lower(k) = "authorization" => Sent.headers[k] = Bearer
            /\ \A k \in DOMAIN given :
                Lower(k) # "authorization" =>
                    (k \in DOMAIN Sent.headers /\ Sent.headers[k] = given[k])

\* the optional arguments of export_chart that the caller gave a value
SuppliedToExport(a) ==
    {k \in {"width", "height", "borderWidth", "borderColor", "logoId"} : a[k] # PyNone}
    \cup (IF a.transparent = PyBool(TRUE) THEN {"transparent"} ELSE {})

\* C6 (as claimed): export_chart with a chart id, the png format and no
\* optional argument sends exactly one GET to
\* <base>/charts/<id>/export/png with an Authorization header and a query
\* that holds no parameter the caller did not supply.
C6_ExportRequestShape ==
    (tool.called /\ tool.name = "export_chart" /\ inv.args.format = "png"
        /\ SuppliedToExport(inv.args) = {}) =>
        /\ Len(req.sent) = 1
        /\ Sent.method = "GET"
        /\ Sent.url = API_BASE_URL \o "/charts/" \o inv.args.chart_id \o "/export/png"
        /\ "Authorization" \in DOMAIN Sent.headers
        /\ DOMAIN Sent.query \subseteq SuppliedToExport(inv.args)

\* C7: in an export_chart invocation write_file is called only after the
\* response has been received, once, with the response body, and when it
\* returns a path the result is the text 'Chart exported to <path>'; when
\* the upstream call fails write_file is not called and the filesystem is
\* left as it was.
C7_WriteAfterResponse ==
    (tool.called /\ tool.name = "export_chart") =>
        IF UpstreamFailed(inv.upstream)
        THEN /\ wf = NoCall
             /\ ~tool.touched
             /\ "write_file" \notin {tool.events[i] : i \in DOMAIN tool.events}
        ELSE /\ wf.called
             /\ wf.content = inv.upstream.content
             /\ tool.events = <<"request", "response", "write_file">>
             /\ wf.status = "ok" =>
                 (~tool.isError /\ tool.text = "Chart exported to " \o PathStr(wf.ret))

\* C7 witness: an export whose response body has been written and reported
C7_Witness ==
    /\ tool.called /\ tool.name = "export_chart"
    /\ inv.upstream.kind = "response" /\ inv.upstream.content = "fake-png"
    /\ wf.called /\ wf.status = "ok" /\ ReadBytes(fs, wf.ret) = "fake-png"
    /\ tool.text = "Chart exported to /base/f"

\* C8: for every handler, an invocation whose upstream call failed
\* (transport failure or non-success status) or whose write_file call
\* failed (invalid path, write failure) ends as an error at the tool
\* boundary, with no text returned as a normal result.
C8_FailuresPropagate ==
    tool.called =>
        /\ (req.called /\ UpstreamFailed(inv.upstream)) => (tool.isError /\ tool.text = "")
        /\ (wf.called /\ wf.status # "ok") => (tool.isError /\ tool.text = "")

\* C8 witness: search_charts answered with 404 has ended as an error
C8_Witness ==
    /\ tool.called /\ tool.name = "search_charts"
    /\ inv.upstream.kind = "response" /\ inv.upstream.status_code = 404
    /\ tool.isError

\* the body arguments a call supplied
BodyKindsSupplied(args) ==
    {k \in {"data", "json_data", "files"} : args[k] # None}

\* C10 (as claimed): a _make_request call that supplies more than one of
\* data, json_data and files fails before any request is issued.
C10_OneBodyKind ==
    (req.called /\ Cardinality(BodyKindsSupplied(req.args)) > 1) =>
        (req.sent = <<>> /\ req.raised # "")

====
